---- MODULE Spec2Model ----
(***************************************************************************)
(* The Redox syscall adapter of relibc (src/platform/src/redox/mod.rs).    *)
(*                                                                         *)
(* A process calls the POSIX-shaped entry points one after the other.      *)
(* Each entry point is one action: it issues native syscalls against the   *)
(* kernel (whose every call may succeed or fail), records them in `log`,   *)
(* and leaves its return value in `ret`, the global `errno`, the process's *)
(* descriptor table `fds` and the caller's output memory `out`.            *)
(*                                                                         *)
(* Representation.  Byte strings are sequences of one-character strings.   *)
(* A machine word is represented by its two's-complement signed value, so  *)
(* the all-ones pattern `!0` is -1 at every width; the values of the model *)
(* are small, so the width casts (`as c_int`, `as ssize_t`) keep them.     *)
(***************************************************************************)
EXTENDS Integers, Sequences, FiniteSets

VARIABLES
    pc,      \* "idle": the caller is about to call; "returned": a call has just returned; "exited"
    errno,   \* the process-wide errno
    fds,     \* the descriptor table: descriptor number -> what it refers to, or "closed"
    call,    \* the entry point called last and its arguments
    errno0,  \* errno on entry to that call
    fds0,    \* the descriptor table on entry to that call
    log,     \* the native syscalls that call issued, in order, with their results
    ret,     \* its return value
    out      \* what it wrote to the caller's output arguments

vars == <<pc, errno, fds, call, errno0, fds0, log, ret, out>>

(***************************************************************************)
(* Bounds of the model.                                                    *)
(***************************************************************************)
\* The descriptor table has descriptors 0 .. NFD-1.
NFD == 2

(***************************************************************************)
(* Program constants.                                                      *)
(***************************************************************************)
AF_INET == 2
SizeofSockaddr == 16
SockDataLen == 14
NameBufLen == 32
SOCK_STREAM == 1
SOCK_DGRAM == 2
SOCK_NONBLOCK == 2048
SOCK_CLOEXEC == 524288
EAFNOSUPPORT == 97
EINVAL == 22
EPROTONOSUPPORT == 93
EPROTOTYPE == 91
EOPNOTSUPP == 95
EISCONN == 106
\* Error codes the kernel reports: a bad descriptor, a full descriptor table,
\* and an interrupted (or otherwise failed) call.
EBADF == 9
EMFILE == 24
EINTR == 4

(***************************************************************************)
(* Byte strings.                                                           *)
(***************************************************************************)
DigitChars == <<"0", "1", "2", "3", "4", "5", "6", "7", "8", "9">>

\* The decimal text of an unsigned integer, as `{}` formats a u8 or a u16.
RECURSIVE ToDec(_)
ToDec(n) ==
    IF n < 10 THEN <<DigitChars[n + 1]>>
    ELSE ToDec(n \div 10) \o <<DigitChars[(n % 10) + 1]>>

Min(a, b) == IF a < b THEN a ELSE b

Take(s, n) == SubSeq(s, 1, Min(n, Len(s)))

Drop(s, n) == SubSeq(s, n + 1, Len(s))

\* slice.iter().position(|&c| c == ch): the 0-based index of the first ch, or -1 (None).
Position(s, ch) ==
    IF \E i \in 1..Len(s) : s[i] = ch
    THEN (CHOOSE i \in 1..Len(s) : s[i] = ch /\ \A j \in 1..(i - 1) : s[j] # ch) - 1
    ELSE -1

\* buf.split(|c| *c == ch): the pieces between the separators, in order.
RECURSIVE Split(_, _)
Split(s, ch) ==
    LET p == Position(s, ch) IN
    IF p < 0 THEN <<s>>
    ELSE <<Take(s, p)>> \o Split(Drop(s, p + 1), ch)

S_listen == <<"l", "i", "s", "t", "e", "n">>
S_tcp == <<"t", "c", "p", ":">>
S_udp == <<"u", "d", "p", ":">>
S_env == <<"e", "n", "v", ":">>

(***************************************************************************)
(* The native syscall layer.  A result is Ok(value) or Err(code).  A call  *)
(* on a descriptor that is not open fails with EBADF; a call that needs a  *)
(* new descriptor fails with EMFILE when the table is full; every call may *)
(* fail with EINTR.  A new descriptor is the lowest free number.  close    *)
(* releases an open descriptor also when it reports an error.              *)
(***************************************************************************)
Ok(v) == [ok |-> TRUE, val |-> v]
Err(c) == [ok |-> FALSE, val |-> c]

Fds == 0..(NFD - 1)

IsOpen(f, fd) == fd \in DOMAIN f /\ f[fd] # "closed"

OpenSet(f) == {fd \in DOMAIN f : f[fd] # "closed"}

FreeFds(f) == {fd \in DOMAIN f : f[fd] = "closed"}

LowestFree(f) == CHOOSE fd \in FreeFds(f) : \A g \in FreeFds(f) : fd <= g

\* One native call in the log: the syscall, its integer arguments (-1: none),
\* its byte-string argument and its result.
N(sys, a1, a2, arg, res) == [sys |-> sys, a1 |-> a1, a2 |-> a2, arg |-> arg, res |-> res]

\* syscall::open(path, flags): a new descriptor.
sys_open(f) ==
    IF FreeFds(f) = {} THEN {Err(EMFILE)} ELSE {Ok(LowestFree(f)), Err(EINTR)}

AfterOpen(f, r, kind) == IF r.ok THEN [f EXCEPT ![r.val] = kind] ELSE f

\* syscall::dup(fd, param): a new descriptor for `param` applied to what fd refers to.
sys_dup(f, fd) ==
    IF ~IsOpen(f, fd) THEN {Err(EBADF)}
    ELSE IF FreeFds(f) = {} THEN {Err(EMFILE)}
    ELSE {Ok(LowestFree(f)), Err(EINTR)}

\* What the descriptor made by dup(fd, param) refers to: a copy of fd (no
\* parameter), an accepted connection ("listen"), a local endpoint to listen
\* on ("/addr:port") or a dialed remote endpoint ("addr:port").
DupKind(f, fd, param) ==
    IF param = <<>> THEN f[fd]
    ELSE IF param = S_listen THEN "conn"
    ELSE IF Head(param) = "/" THEN "bound"
    ELSE "dialed"

AfterDup(f, fd, param, r) ==
    IF r.ok THEN [f EXCEPT ![r.val] = DupKind(f, fd, param)] ELSE f

\* syscall::dup2(fd, newfd, &[]): newfd refers to what fd refers to.
sys_dup2(f, fd, newfd) ==
    IF ~IsOpen(f, fd) \/ newfd \notin DOMAIN f THEN {Err(EBADF)}
    ELSE {Ok(newfd), Err(EINTR)}

AfterDup2(f, fd, newfd, r) == IF r.ok THEN [f EXCEPT ![newfd] = f[fd]] ELSE f

\* syscall::close(fd)
sys_close(f, fd) == IF ~IsOpen(f, fd) THEN {Err(EBADF)} ELSE {Ok(0), Err(EINTR)}

AfterClose(f, fd) == IF IsOpen(f, fd) THEN [f EXCEPT ![fd] = "closed"] ELSE f

\* A native call on a descriptor that changes no descriptor; vals: its success values.
sys_fd(f, fd, vals) ==
    IF ~IsOpen(f, fd) THEN {Err(EBADF)} ELSE {Ok(v) : v \in vals} \cup {Err(EINTR)}

\* A native call on no descriptor.
sys_plain(vals) == {Ok(v) : v \in vals} \cup {Err(EINTR)}

(***************************************************************************)
(* e: the result conversion (lines 22-32).                                 *)
(***************************************************************************)
\* The value e returns: the success value, or !0.
e_ret(sys) == IF sys.ok THEN sys.val ELSE -1

\* A conversion that forgets to store the error's code.
e_errno_unset(sys, cur) == cur

\* errno after e: set to the error's code on failure, untouched on success.
e_errno(sys, cur) == IF sys.ok THEN cur ELSE sys.val

(***************************************************************************)
(* The caller.                                                             *)
(***************************************************************************)
NoCall == [name |-> "none"]

NoOut == [addr |-> <<>>, len |-> 0, rem |-> <<0, 0>>]

\* An entry point returns r, having issued the native calls l.
Finish(l, r, en, f, o) ==
    /\ pc' = "returned"
    /\ log' = l
    /\ ret' = r
    /\ errno' = en
    /\ fds' = f
    /\ out' = o
    /\ errno0' = errno
    /\ fds0' = fds

Init ==
    /\ pc = "idle"
    /\ errno = 0
    /\ fds = [fd \in Fds |-> "closed"]
    /\ call = NoCall
    /\ errno0 = 0
    /\ fds0 = [fd \in Fds |-> "closed"]
    /\ log = <<>>
    /\ ret = 0
    /\ out = NoOut

\* The caller has read the return value and errno, and goes on to its next call.
Return ==
    /\ pc = "returned"
    /\ pc' = "idle"
    /\ call' = NoCall
    /\ errno0' = 0
    /\ fds0' = [fd \in Fds |-> "closed"]
    /\ log' = <<>>
    /\ ret' = 0
    /\ out' = NoOut
    /\ UNCHANGED <<errno, fds>>

(***************************************************************************)
(* Sockets: bind, connect (lines 34-67, 83-85, 124-126).                   *)
(***************************************************************************)
\* A sockaddr: the family and the 14 bytes of data, which SockData reads as
\* the port (2 bytes, network order), the address (4 bytes) and 8 bytes of padding.
SockAddr(family, p0, p1, a) ==
    [sa_family |-> family, data |-> <<p0, p1, a[1], a[2], a[3], a[4], 0, 0, 0, 0, 0, 0, 0, 0>>]

Families == {1, AF_INET, 10}

AddrLens == {8, SizeofSockaddr, 28}

Endpoints ==
    { <<0, 80, <<192, 0, 2, 1>>>>,
      <<31, 144, <<10, 255, 7, 100>>>>,
      <<255, 255, <<127, 0, 0, 1>>>>,
      <<1, 0, <<0, 0, 0, 0>>>> }

SockAddrs == {SockAddr(fam, ep[1], ep[2], ep[3]) : fam \in Families, ep \in Endpoints}

\* data.port as the host reads the two bytes in memory (a little-endian host).
NativeU16(b0, b1) == b0 + 256 * b1

\* The port used as the host read it, without the conversion.
from_be_missing(x) == x

\* in_port_t::from_be on a little-endian host: the two bytes swapped.
from_be(x) == (x % 256) * 256 + (x \div 256)

\* bind_or_connect!(bind $path) / (connect $path): the format string's prefix.
PathPrefix(mode) == IF mode = "bind" THEN <<"/">> ELSE <<>>

\* The duplication parameter, format!("{}.{}.{}.{}:{}", addr[0..3], port).
SockPath(mode, data) ==
    LET port == from_be(NativeU16(data[1], data[2])) IN
    PathPrefix(mode) \o ToDec(data[3]) \o <<".">> \o ToDec(data[4]) \o <<".">>
        \o ToDec(data[5]) \o <<".">> \o ToDec(data[6]) \o <<":">> \o ToDec(port)

\* The checks with the length looked at before the family.
ArgCheck_LenFirst(address, address_len) ==
    IF address_len < SizeofSockaddr THEN EINVAL
    ELSE IF address.sa_family # AF_INET THEN EAFNOSUPPORT
    ELSE 0

\* The argument checks: the errno to fail with, or 0.
ArgCheck(address, address_len) ==
    IF address.sa_family # AF_INET THEN EAFNOSUPPORT
    ELSE IF address_len < SizeofSockaddr THEN EINVAL
    ELSE 0

\* A duplication back that returns on dup2's failure before the close.
DupBack_EarlyReturn(sockfd, fd, f1, n1) ==
    \E r2 \in sys_dup2(f1, fd, sockfd) :
        LET f2 == AfterDup2(f1, fd, sockfd, r2)
            n2 == N("dup2", fd, sockfd, <<>>, r2)
        IN  IF e_ret(r2) < 0
            THEN Finish(<<n1, n2>>, -1, e_errno(r2, errno), f2, NoOut)
            ELSE \E r3 \in sys_close(f2, fd) :
                    Finish(<<n1, n2, N("close", fd, -1, <<>>, r3)>>, 0, e_errno(r2, errno),
                           AfterClose(f2, fd), NoOut)

\* After the dup gave fd: duplicate it back onto socket, close it, report dup2's result.
DupBack(sockfd, fd, f1, n1) ==
    \E r2 \in sys_dup2(f1, fd, sockfd) :
        LET f2 == AfterDup2(f1, fd, sockfd, r2) IN
        \E r3 \in sys_close(f2, fd) :
            LET l == <<n1, N("dup2", fd, sockfd, <<>>, r2), N("close", fd, -1, <<>>, r3)>>
                f3 == AfterClose(f2, fd)
            IN  IF e_ret(r2) < 0
                THEN Finish(l, -1, e_errno(r2, errno), f3, NoOut)
                ELSE Finish(l, 0, e_errno(r2, errno), f3, NoOut)

bind_or_connect(mode, sockfd, address, address_len) ==
    LET bad == ArgCheck(address, address_len) IN
    IF bad # 0 THEN Finish(<<>>, -1, bad, fds, NoOut)
    ELSE
        LET path == SockPath(mode, address.data) IN
        \E r1 \in sys_dup(fds, sockfd) :
            LET n1 == N("dup", sockfd, -1, path, r1)
                fd == e_ret(r1)
            IN  IF fd < 0
                THEN Finish(<<n1>>, -1, e_errno(r1, errno), fds, NoOut)
                ELSE DupBack(sockfd, fd, AfterDup(fds, sockfd, path, r1), n1)

bind ==
    /\ pc = "idle"
    /\ \E sockfd \in Fds, address \in SockAddrs, address_len \in AddrLens :
        /\ call' = [name |-> "bind", socket |-> sockfd, address |-> address,
                    address_len |-> address_len]
        /\ bind_or_connect("bind", sockfd, address, address_len)

connect ==
    /\ pc = "idle"
    /\ \E sockfd \in Fds, address \in SockAddrs, address_len \in AddrLens :
        /\ call' = [name |-> "connect", socket |-> sockfd, address |-> address,
                    address_len |-> address_len]
        /\ bind_or_connect("connect", sockfd, address, address_len)

(***************************************************************************)
(* socket (lines 584-614).                                                 *)
(***************************************************************************)
HasBit(x, b) == (x \div b) % 2 = 1

SockKinds ==
    {SOCK_STREAM, SOCK_DGRAM, 3, SOCK_STREAM + SOCK_NONBLOCK, SOCK_DGRAM + SOCK_CLOEXEC,
     SOCK_STREAM + SOCK_NONBLOCK + SOCK_CLOEXEC}

Protocols == {0, 6}

\* kind with SOCK_NONBLOCK and SOCK_CLOEXEC cleared.
BaseKind(kind) ==
    kind - (IF HasBit(kind, SOCK_NONBLOCK) THEN SOCK_NONBLOCK ELSE 0)
         - (IF HasBit(kind, SOCK_CLOEXEC) THEN SOCK_CLOEXEC ELSE 0)

\* The native open flags derived from kind.
SockFlags(kind) ==
    {"O_RDWR"} \cup (IF HasBit(kind, SOCK_NONBLOCK) THEN {"O_NONBLOCK"} ELSE {})
               \cup (IF HasBit(kind, SOCK_CLOEXEC) THEN {"O_CLOEXEC"} ELSE {})

NOpen(path, flags, res) ==
    [sys |-> "open", a1 |-> -1, a2 |-> -1, arg |-> path, flags |-> flags, res |-> res]

socket_body(domain, kind, protocol) ==
    IF domain # AF_INET THEN Finish(<<>>, -1, EAFNOSUPPORT, fds, NoOut)
    ELSE IF protocol # 0 THEN Finish(<<>>, -1, EPROTONOSUPPORT, fds, NoOut)
    ELSE IF BaseKind(kind) \in {SOCK_STREAM, SOCK_DGRAM}
    THEN \E r \in sys_open(fds) :
            Finish(<<NOpen(IF BaseKind(kind) = SOCK_STREAM THEN S_tcp ELSE S_udp,
                           SockFlags(kind), r)>>,
                   e_ret(r), e_errno(r, errno), AfterOpen(fds, r, "sock"), NoOut)
    ELSE Finish(<<>>, -1, EPROTOTYPE, fds, NoOut)

socket ==
    /\ pc = "idle"
    /\ \E domain \in Families, kind \in SockKinds, protocol \in Protocols :
        /\ call' = [name |-> "socket", domain |-> domain, kind |-> kind, protocol |-> protocol]
        /\ socket_body(domain, kind, protocol)

(***************************************************************************)
(* Name lookup: inner_get_name, getpeername, getsockname (lines 287-347).  *)
(***************************************************************************)
IpPort(a, port) ==
    ToDec(a[1]) \o <<".">> \o ToDec(a[2]) \o <<".">> \o ToDec(a[3]) \o <<".">> \o ToDec(a[4])
        \o <<":">> \o ToDec(port)

\* The paths the network scheme reports for a socket: "tcp:<remote>/<local>" or
\* "udp:<remote>/<local>".
FPaths ==
    { S_tcp \o IpPort(<<10, 0, 0, 2>>, 4000) \o <<"/">> \o IpPort(<<10, 0, 0, 1>>, 80),
      S_udp \o IpPort(<<1, 2, 3, 4>>, 5) \o <<"/">> \o IpPort(<<6, 7, 8, 9>>, 10),
      S_tcp \o IpPort(<<192, 168, 100, 200>>, 65535) \o <<"/">>
            \o IpPort(<<192, 168, 100, 1>>, 8080) }

\* syscall::fpath(fd, buf): the descriptor's path, cut to the buffer's length.
sys_fpath(f, fd, cap) ==
    IF ~IsOpen(f, fd) THEN {[res |-> Err(EBADF), buf |-> <<>>]}
    ELSE {[res |-> Ok(Min(Len(p), cap)), buf |-> Take(p, cap)] : p \in FPaths}
            \cup {[res |-> Err(EINTR), buf |-> <<>>]}

\* A selection that takes the part after the first '/' whichever name is asked.
name_part_after(local, parts) == parts[2]

\* The part of "remote/local" asked for: the local one skips the remote one.
name_part(local, parts) == IF local THEN parts[2] ELSE parts[1]

\* The lookup: its result, the native call it issued, and what it wrote to
\* the caller's address and address length.
inner_get_name(local, sockfd, f) ==
    { IF ~fp.res.ok
      THEN [res |-> fp.res, n |-> N("fpath", sockfd, -1, <<>>, fp.res), out |-> NoOut]
      ELSE
        LET buf == Drop(Take(fp.buf, fp.res.val), 4)
            parts == Split(buf, "/")
            part == name_part(local, parts)
            len == Min(SockDataLen, Len(part))
        IN  [res |-> Ok(0), n |-> N("fpath", sockfd, -1, fp.buf, fp.res),
             out |-> [addr |-> Take(part, len), len |-> len, rem |-> <<0, 0>>]]
      : fp \in sys_fpath(f, sockfd, NameBufLen) }

get_name(local, sockfd) ==
    \E g \in inner_get_name(local, sockfd, fds) :
        Finish(<<g.n>>, e_ret(g.res), e_errno(g.res, errno), fds, g.out)

getpeername ==
    /\ pc = "idle"
    /\ \E sockfd \in Fds :
        /\ call' = [name |-> "getpeername", socket |-> sockfd]
        /\ get_name(FALSE, sockfd)

getsockname ==
    /\ pc = "idle"
    /\ \E sockfd \in Fds :
        /\ call' = [name |-> "getsockname", socket |-> sockfd]
        /\ get_name(TRUE, sockfd)

(***************************************************************************)
(* accept, listen (lines 69-81, 386-389).                                  *)
(***************************************************************************)
\* A lookup step that closes the accepted descriptor when the lookup fails.
accept_lookup_closing(stream, n1, en1, f1) ==
    \E g \in inner_get_name(FALSE, stream, f1) :
        IF e_ret(g.res) < 0
        THEN \E r3 \in sys_close(f1, stream) :
                Finish(<<n1, g.n, N("close", stream, -1, <<>>, r3)>>, -1, e_errno(g.res, en1),
                       AfterClose(f1, stream), NoOut)
        ELSE Finish(<<n1, g.n>>, stream, e_errno(g.res, en1), f1, g.out)

\* The accepted descriptor is `stream`; the caller asked for the peer's name.
accept_lookup(stream, n1, en1, f1) ==
    \E g \in inner_get_name(FALSE, stream, f1) :
        IF e_ret(g.res) < 0
        THEN Finish(<<n1, g.n>>, -1, e_errno(g.res, en1), f1, NoOut)
        ELSE Finish(<<n1, g.n>>, stream, e_errno(g.res, en1), f1, g.out)

\* Whether accept looks the peer's name up.
accept_wants_name(address, address_len) == address /\ address_len

accept_body(sockfd, address, address_len) ==
    \E r1 \in sys_dup(fds, sockfd) :
        LET n1 == N("dup", sockfd, -1, S_listen, r1)
            stream == e_ret(r1)
            en1 == e_errno(r1, errno)
            f1 == AfterDup(fds, sockfd, S_listen, r1)
        IN  IF stream < 0 THEN Finish(<<n1>>, -1, en1, f1, NoOut)
            ELSE IF accept_wants_name(address, address_len)
            THEN accept_lookup(stream, n1, en1, f1)
            ELSE Finish(<<n1>>, stream, en1, f1, NoOut)

\* address, address_len: whether the pointer is non-null.
accept ==
    /\ pc = "idle"
    /\ \E sockfd \in Fds, address \in BOOLEAN, address_len \in BOOLEAN :
        /\ call' = [name |-> "accept", socket |-> sockfd, address |-> address,
                    address_len |-> address_len]
        /\ accept_body(sockfd, address, address_len)

listen ==
    /\ pc = "idle"
    /\ \E sockfd \in Fds :
        /\ call' = [name |-> "listen", socket |-> sockfd]
        /\ Finish(<<>>, 0, errno, fds, NoOut)

(***************************************************************************)
(* read, write, recvfrom, sendto (lines 470-493, 512-529, 644-646).        *)
(***************************************************************************)
\* The byte counts a native read or write reports.
IoCounts == {0, 3}

\* read(fd, buf) after the native calls l, with errno en and outputs o.
read_body(fd, l, en, o) ==
    \E r \in sys_fd(fds, fd, IoCounts) :
        Finish(l \o <<N("read", fd, -1, <<>>, r)>>, e_ret(r), e_errno(r, en), fds, o)

write_body(fd) ==
    \E r \in sys_fd(fds, fd, IoCounts) :
        Finish(<<N("write", fd, -1, <<>>, r)>>, e_ret(r), e_errno(r, errno), fds, NoOut)

read ==
    /\ pc = "idle"
    /\ \E fd \in Fds :
        /\ call' = [name |-> "read", fd |-> fd]
        /\ read_body(fd, <<>>, errno, NoOut)

write ==
    /\ pc = "idle"
    /\ \E fd \in Fds :
        /\ call' = [name |-> "write", fd |-> fd]
        /\ write_body(fd)

MsgFlags == {0, 2}

recvfrom_body(sockfd, flags, address, address_len) ==
    IF flags # 0 THEN Finish(<<>>, -1, EOPNOTSUPP, fds, NoOut)
    ELSE IF address /\ address_len
    THEN \E g \in inner_get_name(FALSE, sockfd, fds) :
            IF e_ret(g.res) < 0
            THEN Finish(<<g.n>>, -1, e_errno(g.res, errno), fds, NoOut)
            ELSE read_body(sockfd, <<g.n>>, e_errno(g.res, errno), g.out)
    ELSE read_body(sockfd, <<>>, errno, NoOut)

recvfrom ==
    /\ pc = "idle"
    /\ \E sockfd \in Fds, flags \in MsgFlags, address \in BOOLEAN, address_len \in BOOLEAN :
        /\ call' = [name |-> "recvfrom", socket |-> sockfd, flags |-> flags,
                    address |-> address, address_len |-> address_len]
        /\ recvfrom_body(sockfd, flags, address, address_len)

\* A sendto that forgets the flags.
sendto_body_noflags(sockfd, flags, dest_addr, dest_len) ==
    IF dest_addr \/ dest_len # 0 THEN Finish(<<>>, -1, EISCONN, fds, NoOut)
    ELSE write_body(sockfd)

sendto_body(sockfd, flags, dest_addr, dest_len) ==
    IF dest_addr \/ dest_len # 0 THEN Finish(<<>>, -1, EISCONN, fds, NoOut)
    ELSE IF flags # 0 THEN Finish(<<>>, -1, EOPNOTSUPP, fds, NoOut)
    ELSE write_body(sockfd)

sendto ==
    /\ pc = "idle"
    /\ \E sockfd \in Fds, flags \in MsgFlags, dest_addr \in BOOLEAN,
          dest_len \in {0, SizeofSockaddr} :
        /\ call' = [name |-> "sendto", socket |-> sockfd, flags |-> flags,
                    dest_addr |-> dest_addr, dest_len |-> dest_len]
        /\ sendto_body(sockfd, flags, dest_addr, dest_len)

(***************************************************************************)
(* Files by path: chmod, chown, rename, stat, lstat, fstat, mkdir, mkfifo  *)
(* (lines 96-118, 231-256, 399-433, 495-505, 572-582).                     *)
(***************************************************************************)
FilePaths == {<<"/", "a">>, <<"b">>}

Modes == {420}

\* A variant that reports the close's failure over the call's success.
with_fd_close_result(path, flags, sys, a2, arg) ==
    \E r1 \in sys_open(fds) :
        LET n1 == NOpen(path, flags, r1) IN
        IF ~r1.ok THEN Finish(<<n1>>, e_ret(r1), e_errno(r1, errno), fds, NoOut)
        ELSE
            LET fd == r1.val
                f1 == AfterOpen(fds, r1, "file")
            IN  \E res \in sys_fd(f1, fd, {0}), r3 \in sys_close(f1, fd) :
                    LET l == <<n1, N(sys, fd, a2, arg, res), N("close", fd, -1, <<>>, r3)>> IN
                    IF res.ok /\ ~r3.ok
                    THEN Finish(l, e_ret(r3), e_errno(r3, errno), AfterClose(f1, fd), NoOut)
                    ELSE Finish(l, e_ret(res), e_errno(res, errno), AfterClose(f1, fd), NoOut)

\* chmod, chown, rename: open the path, apply the descriptor call `sys` (with
\* integer argument a2 and byte-string argument arg), close, report that call's result.
with_fd(path, flags, sys, a2, arg) ==
    \E r1 \in sys_open(fds) :
        LET n1 == NOpen(path, flags, r1) IN
        IF ~r1.ok THEN Finish(<<n1>>, e_ret(r1), e_errno(r1, errno), fds, NoOut)
        ELSE
            LET fd == r1.val
                f1 == AfterOpen(fds, r1, "file")
            IN  \E res \in sys_fd(f1, fd, {0}), r3 \in sys_close(f1, fd) :
                    Finish(<<n1, N(sys, fd, a2, arg, res), N("close", fd, -1, <<>>, r3)>>,
                           e_ret(res), e_errno(res, errno), AfterClose(f1, fd), NoOut)

chmod ==
    /\ pc = "idle"
    /\ \E path \in FilePaths, mode \in Modes :
        /\ call' = [name |-> "chmod", path |-> path, mode |-> mode]
        /\ with_fd(path, {"O_WRONLY"}, "fchmod", mode, <<>>)

chown ==
    /\ pc = "idle"
    /\ \E path \in FilePaths, owner \in {0, 1000} :
        /\ call' = [name |-> "chown", path |-> path, owner |-> owner]
        /\ with_fd(path, {"O_WRONLY"}, "fchown", owner, <<>>)

rename ==
    /\ pc = "idle"
    /\ \E oldpath \in FilePaths, newpath \in FilePaths :
        /\ call' = [name |-> "rename", path |-> oldpath, newpath |-> newpath]
        /\ with_fd(oldpath, {"O_WRONLY"}, "frename", -1, newpath)

\* What fstat returns for the result e gave of the native fstat.
fstat_ret(v) == IF v = 0 THEN 0 ELSE -1

fstat ==
    /\ pc = "idle"
    /\ \E fildes \in Fds :
        /\ call' = [name |-> "fstat", fd |-> fildes]
        /\ \E r \in sys_fd(fds, fildes, {0}) :
            Finish(<<N("fstat", fildes, -1, <<>>, r)>>, fstat_ret(e_ret(r)),
                   e_errno(r, errno), fds, NoOut)

\* stat, lstat: open the path, fstat the descriptor, close, report fstat's result.
stat_body(path, flags) ==
    \E r1 \in sys_open(fds) :
        LET n1 == NOpen(path, flags, r1) IN
        IF ~r1.ok THEN Finish(<<n1>>, e_ret(r1), e_errno(r1, errno), fds, NoOut)
        ELSE
            LET fd == r1.val
                f1 == AfterOpen(fds, r1, "file")
            IN  \E r2 \in sys_fd(f1, fd, {0}), r3 \in sys_close(f1, fd) :
                    Finish(<<n1, N("fstat", fd, -1, <<>>, r2), N("close", fd, -1, <<>>, r3)>>,
                           fstat_ret(e_ret(r2)), e_errno(r2, errno), AfterClose(f1, fd), NoOut)

stat ==
    /\ pc = "idle"
    /\ \E path \in FilePaths :
        /\ call' = [name |-> "stat", path |-> path]
        /\ stat_body(path, {"O_RDONLY"})

lstat ==
    /\ pc = "idle"
    /\ \E path \in FilePaths :
        /\ call' = [name |-> "lstat", path |-> path]
        /\ stat_body(path, {"O_RDONLY", "O_NOFOLLOW"})

\* mkdir, mkfifo: open the path with the creating flags, close, return 0.
create_node(path, flags) ==
    \E r1 \in sys_open(fds) :
        LET n1 == NOpen(path, flags, r1) IN
        IF ~r1.ok THEN Finish(<<n1>>, e_ret(r1), e_errno(r1, errno), fds, NoOut)
        ELSE
            LET fd == r1.val
                f1 == AfterOpen(fds, r1, "file")
            IN  \E r3 \in sys_close(f1, fd) :
                    Finish(<<n1, N("close", fd, -1, <<>>, r3)>>, 0, errno,
                           AfterClose(f1, fd), NoOut)

mkdir ==
    /\ pc = "idle"
    /\ \E path \in FilePaths, mode \in Modes :
        /\ call' = [name |-> "mkdir", path |-> path, mode |-> mode]
        /\ create_node(path, {"O_CREAT", "O_EXCL", "O_CLOEXEC", "O_DIRECTORY", "mode"})

mkfifo ==
    /\ pc = "idle"
    /\ \E path \in FilePaths, mode \in Modes :
        /\ call' = [name |-> "mkfifo", path |-> path, mode |-> mode]
        /\ create_node(path, {"O_CREAT", "MODE_FIFO", "mode"})

(***************************************************************************)
(* execve (lines 141-204).                                                 *)
(***************************************************************************)
E_A1 == <<"A", "=", "1">>
E_eq2 == <<"=", "2">>
E_B == <<"B", "=">>
E_C == <<"C">>
E_PAxy == <<"P", "A", "=", "x", "=", "y">>

\* The environment arrays (without the terminating null).
EnvArrays == { <<>>, <<E_A1, E_eq2, E_B>>, <<E_C, E_PAxy>>, <<E_B, E_A1>> }

ExecPath == <<"/", "b", "i", "n">>

\* The argument arrays: the length of each argument.
ArgArrays == { <<>>, <<2, 5>> }

\* An entry counts when '=' is found and the name before it is not empty.
has_name(sep) == sep > 0

\* A test that writes the value also when it is empty.
has_value_always(slice, sep) == TRUE

\* The entry has a value after the '='.
has_value(slice, sep) == sep + 1 < Len(slice)

\* One entry "NAME=value" with a name (sep > 0): the native calls it issues,
\* the descriptor table after them, and Ok(0) or the error that ends execve.
env_entry(slice, sep, f) ==
    LET path == S_env \o Take(slice, sep)
        value == Drop(slice, sep + 1)
    IN  UNION {
          LET n1 == NOpen(path, {"O_WRONLY", "O_CREAT"}, r1) IN
          IF ~r1.ok THEN {[l |-> <<n1>>, f |-> f, r |-> r1]}
          ELSE
            LET fd == r1.val
                f1 == AfterOpen(f, r1, "file")
                closes(l) ==
                    { [l |-> l \o <<N("close", fd, -1, <<>>, r3)>>, f |-> AfterClose(f1, fd),
                       r |-> IF r3.ok THEN Ok(0) ELSE r3] : r3 \in sys_close(f1, fd) }
            IN  IF has_value(slice, sep)
                THEN UNION {
                       LET n2 == N("write", fd, -1, value, r2) IN
                       IF ~r2.ok THEN {[l |-> <<n1, n2>>, f |-> f1, r |-> r2]}
                       ELSE closes(<<n1, n2>>)
                       : r2 \in sys_fd(f1, fd, {Len(value)}) }
                ELSE closes(<<n1>>)
          : r1 \in sys_open(f) }

\* The loop over envp from entry i on, after the native calls l.
RECURSIVE env_loop(_, _, _, _)
env_loop(env, i, f, l) ==
    IF i > Len(env) THEN {[l |-> l, f |-> f, r |-> Ok(0)]}
    ELSE
        LET slice == env[i]
            sep == Position(slice, "=")
        IN  IF has_name(sep)
            THEN UNION {
                   IF o.r.ok THEN env_loop(env, i + 1, o.f, l \o o.l)
                   ELSE {[l |-> l \o o.l, f |-> o.f, r |-> o.r]}
                   : o \in env_entry(slice, sep, f) }
            ELSE env_loop(env, i + 1, f, l)

\* A successful native execve replaces the process image: the call does not return.
Replaced(l, f) ==
    /\ pc' = "exited"
    /\ log' = l
    /\ fds' = f
    /\ errno0' = errno
    /\ fds0' = fds
    /\ UNCHANGED <<errno, ret, out>>

execve_body(path, argv, envp) ==
    \E o \in env_loop(envp, 1, fds, <<>>) :
        IF ~o.r.ok THEN Finish(o.l, e_ret(o.r), e_errno(o.r, errno), o.f, NoOut)
        ELSE \E r \in sys_plain({0}) :
                LET l == o.l \o <<N("execve", Len(argv), -1, path, r)>> IN
                IF r.ok THEN Replaced(l, o.f)
                ELSE Finish(l, e_ret(r), e_errno(r, errno), o.f, NoOut)

execve ==
    /\ pc = "idle"
    /\ \E argv \in ArgArrays, envp \in EnvArrays :
        /\ call' = [name |-> "execve", path |-> ExecPath, argv |-> argv, envp |-> envp]
        /\ execve_body(ExecPath, argv, envp)

(***************************************************************************)
(* nanosleep, clock_gettime (lines 435-455, 648-660).                      *)
(***************************************************************************)
\* redox_timespec::from(&timespec): tv_sec as it is, tv_nsec `as i32`.
ts_from(ts) == <<ts[1], ts[2]>>

TimeSpecs == { <<0, 0>>, <<1, 500>> }

\* What the caller's *rmtp holds before the call.
RmtpBefore == <<7, 7>>

\* The durations the kernel may report as remaining of an interrupted sleep of req.
Remaining(req) == {req} \cup (IF req[1] > 0 THEN {<<0, 250>>} ELSE {})

\* syscall::nanosleep(&req, &mut rem): the result, and rem after the call.
sys_nanosleep(req, rem) ==
    {[res |-> Ok(0), rem |-> x] : x \in {<<0, 0>>, rem}}
        \cup {[res |-> Err(EINTR), rem |-> x] : x \in Remaining(req)}

nanosleep_body(rqtp, rmtp_null) ==
    LET redox_rqtp == ts_from(rqtp)
        redox_rmtp == IF rmtp_null THEN <<0, 0>> ELSE ts_from(RmtpBefore)
        before == IF rmtp_null THEN <<0, 0>> ELSE RmtpBefore
    IN  \E s \in sys_nanosleep(redox_rqtp, redox_rmtp) :
            LET n == [sys |-> "nanosleep", a1 |-> redox_rqtp[1], a2 |-> redox_rqtp[2],
                      arg |-> <<>>, res |-> s.res, rem |-> s.rem]
            IN  IF e_ret(s.res) = -1
                THEN Finish(<<n>>, -1, e_errno(s.res, errno), fds,
                            [NoOut EXCEPT !.rem = before])
                ELSE Finish(<<n>>, 0, e_errno(s.res, errno), fds,
                            [NoOut EXCEPT !.rem = IF rmtp_null THEN before ELSE s.rem])

nanosleep ==
    /\ pc = "idle"
    /\ \E rqtp \in TimeSpecs, rmtp_null \in BOOLEAN :
        /\ call' = [name |-> "nanosleep", rqtp |-> rqtp, rmtp_null |-> rmtp_null]
        /\ nanosleep_body(rqtp, rmtp_null)

clock_gettime ==
    /\ pc = "idle"
    /\ call' = [name |-> "clock_gettime"]
    /\ \E r \in sys_plain({0}) :
        LET n == N("clock_gettime", 1, -1, <<>>, r) IN
        IF e_ret(r) = -1 THEN Finish(<<n>>, -1, e_errno(r, errno), fds, NoOut)
        ELSE Finish(<<n>>, 0, e_errno(r, errno), fds, [NoOut EXCEPT !.rem = <<5, 6>>])

(***************************************************************************)
(* The entry points that forward one native call through e.                *)
(***************************************************************************)
\* e(syscall::sys(..)) on no descriptor.
plain(sys, vals) ==
    \E r \in sys_plain(vals) :
        Finish(<<N(sys, -1, -1, <<>>, r)>>, e_ret(r), e_errno(r, errno), fds, NoOut)

\* e(syscall::sys(fd, ..)) on a descriptor.
on_fd(sys, fd, vals) ==
    \E r \in sys_fd(fds, fd, vals) :
        Finish(<<N(sys, fd, -1, <<>>, r)>>, e_ret(r), e_errno(r, errno), fds, NoOut)

\* Process, user and group ids the kernel reports.
Ids == {0, 7}

chdir ==
    /\ pc = "idle"
    /\ call' = [name |-> "chdir"]
    /\ plain("chdir", {0})

fork ==
    /\ pc = "idle"
    /\ call' = [name |-> "fork"]
    /\ plain("clone", Ids)

getegid ==
    /\ pc = "idle"
    /\ call' = [name |-> "getegid"]
    /\ plain("getegid", Ids)

geteuid ==
    /\ pc = "idle"
    /\ call' = [name |-> "geteuid"]
    /\ plain("geteuid", Ids)

getgid ==
    /\ pc = "idle"
    /\ call' = [name |-> "getgid"]
    /\ plain("getgid", Ids)

getpgid ==
    /\ pc = "idle"
    /\ call' = [name |-> "getpgid"]
    /\ plain("getpgid", Ids)

getpid ==
    /\ pc = "idle"
    /\ call' = [name |-> "getpid"]
    /\ plain("getpid", Ids)

getppid ==
    /\ pc = "idle"
    /\ call' = [name |-> "getppid"]
    /\ plain("getppid", Ids)

getuid ==
    /\ pc = "idle"
    /\ call' = [name |-> "getuid"]
    /\ plain("getuid", Ids)

kill ==
    /\ pc = "idle"
    /\ call' = [name |-> "kill"]
    /\ plain("kill", {0})

killpg ==
    /\ pc = "idle"
    /\ call' = [name |-> "killpg"]
    /\ plain("kill", {0})

link ==
    /\ pc = "idle"
    /\ call' = [name |-> "link"]
    /\ plain("link", {0})

rmdir ==
    /\ pc = "idle"
    /\ call' = [name |-> "rmdir"]
    /\ plain("rmdir", {0})

setpgid ==
    /\ pc = "idle"
    /\ call' = [name |-> "setpgid"]
    /\ plain("setpgid", {0})

setregid ==
    /\ pc = "idle"
    /\ call' = [name |-> "setregid"]
    /\ plain("setregid", {0})

setreuid ==
    /\ pc = "idle"
    /\ call' = [name |-> "setreuid"]
    /\ plain("setreuid", {0})

unlink ==
    /\ pc = "idle"
    /\ call' = [name |-> "unlink"]
    /\ plain("unlink", {0})

fchmod ==
    /\ pc = "idle"
    /\ \E fd \in Fds :
        /\ call' = [name |-> "fchmod", fd |-> fd]
        /\ on_fd("fchmod", fd, {0})

fchown ==
    /\ pc = "idle"
    /\ \E fd \in Fds :
        /\ call' = [name |-> "fchown", fd |-> fd]
        /\ on_fd("fchown", fd, {0})

fcntl ==
    /\ pc = "idle"
    /\ \E fd \in Fds :
        /\ call' = [name |-> "fcntl", fd |-> fd]
        /\ on_fd("fcntl", fd, {0, 1})

fsync ==
    /\ pc = "idle"
    /\ \E fd \in Fds :
        /\ call' = [name |-> "fsync", fd |-> fd]
        /\ on_fd("fsync", fd, {0})

ftruncate ==
    /\ pc = "idle"
    /\ \E fd \in Fds :
        /\ call' = [name |-> "ftruncate", fd |-> fd]
        /\ on_fd("ftruncate", fd, {0})

lseek ==
    /\ pc = "idle"
    /\ \E fd \in Fds :
        /\ call' = [name |-> "lseek", fd |-> fd]
        /\ on_fd("lseek", fd, {0, 3})

(***************************************************************************)
(* Descriptors: open, close, dup, dup2, pipe (lines 120-134, 457-468).     *)
(***************************************************************************)
open ==
    /\ pc = "idle"
    /\ \E path \in FilePaths :
        /\ call' = [name |-> "open", path |-> path]
        /\ \E r \in sys_open(fds) :
            Finish(<<NOpen(path, {"oflag", "mode"}, r)>>, e_ret(r), e_errno(r, errno),
                   AfterOpen(fds, r, "file"), NoOut)

close ==
    /\ pc = "idle"
    /\ \E fd \in Fds :
        /\ call' = [name |-> "close", fd |-> fd]
        /\ \E r \in sys_close(fds, fd) :
            Finish(<<N("close", fd, -1, <<>>, r)>>, e_ret(r), e_errno(r, errno),
                   AfterClose(fds, fd), NoOut)

dup ==
    /\ pc = "idle"
    /\ \E fd \in Fds :
        /\ call' = [name |-> "dup", fd |-> fd]
        /\ \E r \in sys_dup(fds, fd) :
            Finish(<<N("dup", fd, -1, <<>>, r)>>, e_ret(r), e_errno(r, errno),
                   AfterDup(fds, fd, <<>>, r), NoOut)

dup2 ==
    /\ pc = "idle"
    /\ \E fd1 \in Fds, fd2 \in Fds :
        /\ call' = [name |-> "dup2", fd |-> fd1, fd2 |-> fd2]
        /\ \E r \in sys_dup2(fds, fd1, fd2) :
            Finish(<<N("dup2", fd1, fd2, <<>>, r)>>, e_ret(r), e_errno(r, errno),
                   AfterDup2(fds, fd1, fd2, r), NoOut)

\* syscall::pipe2(&mut fds, 0): two new descriptors.
sys_pipe2(f) ==
    IF Cardinality(FreeFds(f)) < 2 THEN {Err(EMFILE)} ELSE {Ok(0), Err(EINTR)}

AfterPipe2(f, r) ==
    IF r.ok
    THEN LET a == LowestFree(f)
             b == LowestFree([f EXCEPT ![a] = "file"])
         IN  [f EXCEPT ![a] = "file", ![b] = "file"]
    ELSE f

pipe ==
    /\ pc = "idle"
    /\ call' = [name |-> "pipe"]
    /\ \E r \in sys_pipe2(fds) :
        Finish(<<N("pipe2", -1, -1, <<>>, r)>>, e_ret(r), e_errno(r, errno),
               AfterPipe2(fds, r), NoOut)

(***************************************************************************)
(* fchdir, getcwd, waitpid, brk, exit (lines 87-89, 136-139, 206-213,      *)
(* 266-273, 633-642).                                                      *)
(***************************************************************************)
\* The paths the kernel reports for a directory descriptor.
DirPaths == {<<"f", "i", "l", "e", ":", "/">>}

CwdBufLen == 4096

\* The addresses of the caller's buffer.
CwdBufs == {4096}

fchdir ==
    /\ pc = "idle"
    /\ \E fd \in Fds :
        /\ call' = [name |-> "fchdir", fd |-> fd]
        /\ \E r1 \in sys_fd(fds, fd, {Min(Len(p), CwdBufLen) : p \in DirPaths}) :
            LET n1 == N("fpath", fd, -1, <<>>, r1) IN
            IF e_ret(r1) = -1 THEN Finish(<<n1>>, -1, e_errno(r1, errno), fds, NoOut)
            ELSE \E r2 \in sys_plain({0}) :
                    Finish(<<n1, N("chdir", -1, -1, <<>>, r2)>>, e_ret(r2),
                           e_errno(r2, e_errno(r1, errno)), fds, NoOut)

\* getcwd returns the buffer, or a null pointer (0) on failure.
getcwd ==
    /\ pc = "idle"
    /\ \E buf \in CwdBufs :
        /\ call' = [name |-> "getcwd", buf |-> buf]
        /\ \E r \in sys_plain({2}) :
            Finish(<<N("getcwd", -1, -1, <<>>, r)>>, IF e_ret(r) = -1 THEN 0 ELSE buf,
                   e_errno(r, errno), fds, NoOut)

waitpid ==
    /\ pc = "idle"
    /\ call' = [name |-> "waitpid"]
    /\ plain("waitpid", Ids)

\* The break addresses asked for.
BrkAddrs == {0, 8192}

\* brk: syscall::brk(addr).unwrap_or(0), errno untouched.
brk ==
    /\ pc = "idle"
    /\ \E addr \in BrkAddrs :
        /\ call' = [name |-> "brk", addr |-> addr]
        /\ \E r \in sys_plain({8192}) :
            Finish(<<N("brk", addr, -1, <<>>, r)>>, IF r.ok THEN r.val ELSE 0, errno, fds, NoOut)

\* exit: the native exit, then the process is gone (or loops for ever).
exit ==
    /\ pc = "idle"
    /\ call' = [name |-> "exit"]
    /\ \E r \in sys_plain({0}) :
        /\ pc' = "exited"
        /\ log' = <<N("exit", 0, -1, <<>>, r)>>
        /\ errno0' = errno
        /\ fds0' = fds
        /\ UNCHANGED <<errno, fds, ret, out>>

Next ==
    \/ Return
    \/ bind
    \/ connect
    \/ socket
    \/ getpeername
    \/ getsockname
    \/ accept
    \/ listen
    \/ read
    \/ write
    \/ recvfrom
    \/ sendto
    \/ chmod
    \/ chown
    \/ rename
    \/ fstat
    \/ stat
    \/ lstat
    \/ mkdir
    \/ mkfifo
    \/ execve
    \/ nanosleep
    \/ clock_gettime
    \/ chdir
    \/ fork
    \/ getegid
    \/ geteuid
    \/ getgid
    \/ getpgid
    \/ getpid
    \/ getppid
    \/ getuid
    \/ kill
    \/ killpg
    \/ link
    \/ rmdir
    \/ setpgid
    \/ setregid
    \/ setreuid
    \/ unlink
    \/ fchmod
    \/ fchown
    \/ fcntl
    \/ fsync
    \/ ftruncate
    \/ lseek
    \/ open
    \/ close
    \/ dup
    \/ dup2
    \/ pipe
    \/ fchdir
    \/ getcwd
    \/ waitpid
    \/ brk
    \/ exit

Spec == Init /\ [][Next]_vars

(***************************************************************************)
(* Properties.                                                             *)
(***************************************************************************)
Returned(names) == pc = "returned" /\ call.name \in names

\* The value an entry point returns on failure: a null pointer for getcwd and
\* brk, -1 for the others.
Sentinel(name) == IF name \in {"getcwd", "brk"} THEN 0 ELSE -1

Failures == {i \in 1..Len(log) : ~log[i].res.ok}

Calls(sys) == {i \in 1..Len(log) : log[i].sys = sys}

\* The entry points whose trailing close is `let _ = syscall::close(fd)`.
ClosersByPath == {"chmod", "chown", "stat", "lstat", "rename", "mkdir", "mkfifo"}

\* The native failures whose result the entry point does not discard.
KeptFailures ==
    {i \in Failures : ~(log[i].sys = "close" /\ call.name \in ClosersByPath \cup {"bind", "connect"})}

ValidationErrnos == {EAFNOSUPPORT, EINVAL, EPROTONOSUPPORT, EPROTOTYPE, EOPNOTSUPP, EISCONN}

\* C1 as stated: whenever a native syscall of a call fails with code c, the call
\* returns its failure sentinel and errno = c; whenever the call returns a
\* success value, errno is what it was before the call.
C1_Original ==
    pc = "returned" =>
        /\ \A i \in Failures : ret = Sentinel(call.name) /\ errno = log[i].res.val
        /\ (ret # Sentinel(call.name) => errno = errno0)

\* C1, amended: for every entry point but brk, a failing native syscall whose
\* result is not discarded makes the call return its sentinel with errno set to
\* that code; a call that returns its sentinel has set errno to such a code or
\* to its own validation error, before any native call; a call that returns
\* success leaves errno as it was.  Only the cleanup close of bind, connect and
\* the path-based file calls is discarded.
C1_ErrnoIffFailure ==
    pc = "returned" /\ call.name # "brk" =>
        /\ \A i \in KeptFailures : ret = Sentinel(call.name) /\ errno = log[i].res.val
        /\ (ret # Sentinel(call.name) => errno = errno0)
        /\ (ret = Sentinel(call.name) =>
                \/ \E i \in KeptFailures : errno = log[i].res.val
                \/ log = <<>> /\ errno \in ValidationErrnos)

\* fchdir's chdir fails after its fpath succeeded: -1, and errno replaced by the code.
C1_Witness ==
    /\ Returned({"fchdir"})
    /\ Len(log) = 2
    /\ ~log[2].res.ok
    /\ ret = -1
    /\ errno0 = EBADF
    /\ errno = EINTR

\* The arguments pass bind's and connect's checks.
ArgsValid == call.address.sa_family = AF_INET /\ call.address_len >= SizeofSockaddr

\* C2: with a family other than AF_INET, bind, connect and socket return -1 with
\* errno = EAFNOSUPPORT and issue no native call, whatever the other arguments,
\* a too short address length included.
C2_FamilyFirst ==
    /\ Returned({"bind", "connect"}) /\ call.address.sa_family # AF_INET =>
            ret = -1 /\ errno = EAFNOSUPPORT /\ log = <<>> /\ fds = fds0
    /\ Returned({"socket"}) /\ call.domain # AF_INET =>
            ret = -1 /\ errno = EAFNOSUPPORT /\ log = <<>> /\ fds = fds0

C2_Witness ==
    /\ Returned({"connect"})
    /\ call.address.sa_family = 10
    /\ call.address_len < SizeofSockaddr
    /\ errno0 = 0
    /\ errno = EAFNOSUPPORT

\* "a.b.c.d:port" for the data bytes, the port being the big-endian value of
\* the first two bytes.
DialText(data) ==
    ToDec(data[3]) \o <<".">> \o ToDec(data[4]) \o <<".">> \o ToDec(data[5]) \o <<".">>
        \o ToDec(data[6]) \o <<":">> \o ToDec(data[1] * 256 + data[2])

T_192_0_2_1_80 == <<"1", "9", "2", ".", "0", ".", "2", ".", "1", ":", "8", "0">>
T_10_255_7_100_8080 == <<"1", "0", ".", "2", "5", "5", ".", "7", ".", "1", "0", "0", ":", "8", "0", "8", "0">>
T_127_0_0_1_65535 == <<"1", "2", "7", ".", "0", ".", "0", ".", "1", ":", "6", "5", "5", "3", "5">>
T_0_0_0_0_256 == <<"0", ".", "0", ".", "0", ".", "0", ":", "2", "5", "6">>

\* The dial texts of the addresses of the model, written out.
KnownText(data) ==
    CASE SubSeq(data, 1, 6) = <<0, 80, 192, 0, 2, 1>> -> T_192_0_2_1_80
      [] SubSeq(data, 1, 6) = <<31, 144, 10, 255, 7, 100>> -> T_10_255_7_100_8080
      [] SubSeq(data, 1, 6) = <<255, 255, 127, 0, 0, 1>> -> T_127_0_0_1_65535
      [] SubSeq(data, 1, 6) = <<1, 0, 0, 0, 0, 0>> -> T_0_0_0_0_256
      [] OTHER -> DialText(data)

\* C3: for an AF_INET address of sufficient length, the parameter of the first
\* native dup is "a.b.c.d:port" for connect and "/a.b.c.d:port" for bind, port
\* being the host-order value of the big-endian port bytes.
C3_DupParam ==
    Returned({"bind", "connect"}) /\ ArgsValid =>
        /\ Len(log) >= 1
        /\ log[1].sys = "dup"
        /\ log[1].a1 = call.socket
        /\ log[1].arg = (IF call.name = "bind" THEN <<"/">> ELSE <<>>) \o DialText(call.address.data)
        /\ DialText(call.address.data) = KnownText(call.address.data)

\* bind to 192.0.2.1 port 80 passes "/192.0.2.1:80".
C3_Witness ==
    /\ Returned({"bind"})
    /\ ArgsValid
    /\ SubSeq(call.address.data, 1, 6) = <<0, 80, 192, 0, 2, 1>>
    /\ log[1].arg = <<"/">> \o T_192_0_2_1_80

\* The index of the first '/' of a path that has one.
FirstSlash(path) ==
    CHOOSE k \in 1..Len(path) : path[k] = "/" /\ \A j \in 1..(k - 1) : path[j] # "/"

\* The text between the 4-byte scheme prefix and the first '/': the remote part.
BeforeSlash(path) == SubSeq(path, 5, FirstSlash(path) - 1)

\* The text after the first '/', up to the next '/' or the end: the local part.
AfterSlash(path) ==
    LET rest == SubSeq(path, FirstSlash(path) + 1, Len(path)) IN
    IF \E k \in 1..Len(rest) : rest[k] = "/" THEN SubSeq(rest, 1, FirstSlash(rest) - 1) ELSE rest

\* C4 as stated: without an address pointer accept issues no fpath; with one
\* (and the length pointer that goes with it) it issues exactly one, and the
\* address returned is the text after the first '/' of the path fpath reports.
C4_Original ==
    Returned({"accept"}) /\ log[1].res.ok =>
        /\ (~call.address => Calls("fpath") = {})
        /\ (call.address /\ call.address_len =>
                /\ Cardinality(Calls("fpath")) = 1
                /\ (ret >= 0 => out.addr = AfterSlash(log[2].arg)))

\* C4, amended: accept issues no fpath when the address pointer or the
\* address-length pointer is null, or when its dup fails; with both pointers
\* and a successful dup it issues exactly one fpath, on the accepted descriptor,
\* and when that succeeds the bytes written to the address are the first
\* min(14, n) bytes of the text between the scheme prefix and the first '/' of
\* the reported path, and the length written is their count.
C4_PeerName ==
    Returned({"accept"}) =>
        LET want == call.address /\ call.address_len IN
        /\ (~want \/ ~log[1].res.ok => Calls("fpath") = {})
        /\ (want /\ log[1].res.ok =>
                /\ Calls("fpath") = {2}
                /\ Len(log) = 2
                /\ log[2].a1 = log[1].res.val
                /\ (log[2].res.ok =>
                        /\ ret = log[1].res.val
                        /\ out.addr = Take(BeforeSlash(log[2].arg), SockDataLen)
                        /\ out.len = Len(out.addr)))

\* accept returns a peer name that did not fit the 14 bytes.
C4_Witness ==
    /\ Returned({"accept"})
    /\ call.address /\ call.address_len
    /\ Len(log) = 2
    /\ log[2].res.ok
    /\ ret >= 0
    /\ out.len = SockDataLen
    /\ Len(BeforeSlash(log[2].arg)) > SockDataLen

\* The text of an entry before its first '=' (all of it when it has none).
NameOf(entry) ==
    IF \E k \in 1..Len(entry) : entry[k] = "="
    THEN SubSeq(entry, 1, (CHOOSE k \in 1..Len(entry) :
                              entry[k] = "=" /\ \A j \in 1..(k - 1) : entry[j] # "=") - 1)
    ELSE entry

\* The text of an entry after its first '='.
ValueOf(entry) == SubSeq(entry, Len(NameOf(entry)) + 2, Len(entry))

\* The entry is "NAME=value" with a non-empty NAME.
WellFormed(entry) == Len(NameOf(entry)) > 0 /\ Len(NameOf(entry)) < Len(entry)

\* The native calls one entry is to cause: <<syscall, byte string>> each.
EntryShape(entry) ==
    IF ~WellFormed(entry) THEN <<>>
    ELSE <<<<"open", S_env \o NameOf(entry)>>>>
            \o (IF ValueOf(entry) # <<>> THEN <<<<"write", ValueOf(entry)>>>> ELSE <<>>)
            \o <<<<"close", <<>>>>>>

RECURSIVE EnvShape(_)
EnvShape(env) == IF env = <<>> THEN <<>> ELSE EntryShape(Head(env)) \o EnvShape(Tail(env))

LogShape == [i \in 1..Len(log) |-> <<log[i].sys, log[i].arg>>]

\* The last open before the i-th native call.
LastOpen(i) == CHOOSE k \in Calls("open") : k < i /\ \A m \in Calls("open") : m < i => m <= k

\* C5: when every native call succeeds, execve issues for each entry with a
\* non-empty name, in order, one open of "env:NAME", one write of the value
\* if and only if the value is not empty, and one close, the write and the close
\* on the descriptor the open gave; nothing for an entry with an empty name or
\* no '='; and the native execve after all of them.  "A=1", "=2", "B=" gives
\* open env:A, write "1", close, open env:B, close, execve.
C5_EnvEntries ==
    pc \in {"returned", "exited"} /\ call.name = "execve" /\ Failures = {} =>
        /\ pc = "exited"
        /\ LogShape = EnvShape(call.envp) \o <<<<"execve", call.path>>>>
        /\ \A i \in Calls("write") \cup Calls("close") : log[i].a1 = log[LastOpen(i)].res.val
        /\ \A i \in Calls("open") : log[i].flags = {"O_WRONLY", "O_CREAT"}
        /\ (call.envp = <<E_A1, E_eq2, E_B>> =>
                LogShape = << <<"open", <<"e", "n", "v", ":", "A">>>>, <<"write", <<"1">>>>,
                              <<"close", <<>>>>, <<"open", <<"e", "n", "v", ":", "B">>>>,
                              <<"close", <<>>>>, <<"execve", call.path>> >>)
        /\ fds = fds0

C5_Witness ==
    /\ pc = "exited"
    /\ call.name = "execve"
    /\ call.envp = <<E_A1, E_eq2, E_B>>
    /\ Failures = {}
    /\ Len(log) = 6

\* C6: nanosleep passes the requested duration to the native call unchanged,
\* and when the native call fails, reporting a remaining duration, and the
\* caller's remainder pointer is not null, the caller's remainder is that
\* remaining duration.
C6_Remainder ==
    Returned({"nanosleep"}) =>
        /\ log[1].a1 = call.rqtp[1]
        /\ log[1].a2 = call.rqtp[2]
        /\ (~log[1].res.ok /\ ~call.rmtp_null => out.rem = log[1].rem)

\* C7 as stated: sendto fails with EISCONN, without a native call, when a
\* destination address is supplied, recvfrom with EOPNOTSUPP when flags are not
\* zero; in every other case sendto issues a native write and recvfrom a native
\* read on the socket (read here as: unless its peer-name fetch failed),
\* recvfrom with a peer-name fetch exactly when the caller supplies the
\* source-address outputs.
C7_Original ==
    /\ Returned({"sendto"}) =>
            IF call.dest_addr THEN ret = -1 /\ errno = EISCONN /\ log = <<>>
            ELSE Len(log) = 1 /\ log[1].sys = "write" /\ log[1].a1 = call.socket
    /\ Returned({"recvfrom"}) =>
            IF call.flags # 0 THEN ret = -1 /\ errno = EOPNOTSUPP /\ log = <<>>
            ELSE /\ (Calls("fpath") # {} <=> call.address /\ call.address_len)
                 /\ (Calls("fpath") \cap Failures = {} =>
                        /\ log # <<>>
                        /\ log[Len(log)].sys = "read"
                        /\ log[Len(log)].a1 = call.socket)

\* C7, amended: sendto fails with EISCONN when a destination address or a
\* destination length other than 0 is supplied, and otherwise with EOPNOTSUPP when
\* flags are not zero; recvfrom fails with EOPNOTSUPP when flags are not zero;
\* none of these issues a native call.  Otherwise sendto issues one native write
\* on the socket and returns its result; recvfrom issues one fpath exactly when
\* both source-address outputs are supplied, returns -1 with that lookup's errno
\* and without a read when it fails, and otherwise issues one native read on the
\* socket and returns its result.
C7_DataTransfer ==
    /\ Returned({"sendto"}) =>
            IF call.dest_addr \/ call.dest_len # 0
            THEN ret = -1 /\ errno = EISCONN /\ log = <<>>
            ELSE IF call.flags # 0
            THEN ret = -1 /\ errno = EOPNOTSUPP /\ log = <<>>
            ELSE /\ Len(log) = 1
                 /\ log[1].sys = "write"
                 /\ log[1].a1 = call.socket
                 /\ ret = (IF log[1].res.ok THEN log[1].res.val ELSE -1)
    /\ Returned({"recvfrom"}) =>
            IF call.flags # 0 THEN ret = -1 /\ errno = EOPNOTSUPP /\ log = <<>>
            ELSE LET want == call.address /\ call.address_len IN
                 /\ Calls("fpath") = (IF want THEN {1} ELSE {})
                 /\ (want => log[1].a1 = call.socket)
                 /\ IF want /\ ~log[1].res.ok
                    THEN Len(log) = 1 /\ ret = -1 /\ errno = log[1].res.val
                    ELSE /\ Len(log) = (IF want THEN 2 ELSE 1)
                         /\ log[Len(log)].sys = "read"
                         /\ log[Len(log)].a1 = call.socket
                         /\ ret = (IF log[Len(log)].res.ok THEN log[Len(log)].res.val ELSE -1)

\* sendto without a destination but with flags: EOPNOTSUPP and no write.
C7_Witness ==
    /\ Returned({"sendto"})
    /\ ~call.dest_addr
    /\ call.dest_len = 0
    /\ call.flags # 0
    /\ IsOpen(fds, call.socket)
    /\ errno = EOPNOTSUPP
    /\ log = <<>>

\* C8: in bind and connect with valid arguments the native calls are dup(socket,
\* path), dup2(intermediate, socket, empty), close(intermediate), in this
\* order.  A failed dup ends the call with -1 and nothing else called.  After a
\* successful dup the intermediate descriptor is closed exactly once, also when
\* dup2 fails, which gives -1 with dup2's errno.  On success the call returns 0,
\* the socket's number refers to the bound or connected endpoint, and no other
\* descriptor has changed.
C8_DupBack ==
    Returned({"bind", "connect"}) /\ ArgsValid =>
        /\ Len(log) >= 1
        /\ log[1].sys = "dup"
        /\ log[1].a1 = call.socket
        /\ (~log[1].res.ok =>
                Len(log) = 1 /\ ret = -1 /\ errno = log[1].res.val /\ fds = fds0)
        /\ (log[1].res.ok =>
                LET fd == log[1].res.val IN
                /\ Len(log) = 3
                /\ log[2].sys = "dup2" /\ log[2].a1 = fd /\ log[2].a2 = call.socket
                /\ log[2].arg = <<>>
                /\ log[3].sys = "close" /\ log[3].a1 = fd
                /\ Calls("close") = {3}
                /\ ~IsOpen(fds, fd)
                /\ (~log[2].res.ok => ret = -1 /\ errno = log[2].res.val /\ fds = fds0)
                /\ (log[2].res.ok =>
                        /\ ret = 0
                        /\ errno = errno0
                        /\ fds[call.socket] = (IF call.name = "bind" THEN "bound" ELSE "dialed")
                        /\ \A d \in Fds \ {call.socket} : fds[d] = fds0[d]))

\* dup2 fails in bind: the intermediate descriptor is closed all the same.
C8_Witness ==
    /\ Returned({"bind"})
    /\ Len(log) = 3
    /\ ~log[2].res.ok
    /\ log[3].sys = "close"
    /\ ret = -1

\* C9: when accept's dup succeeds and the peer-name lookup then fails, accept
\* returns -1 with the lookup's errno, and the accepted descriptor is not
\* closed: it stays open in the descriptor table.
C9_AcceptLeak ==
    Returned({"accept"}) /\ Len(log) >= 2 /\ log[1].res.ok /\ ~log[2].res.ok =>
        /\ log[2].sys = "fpath"
        /\ ret = -1
        /\ errno = log[2].res.val
        /\ Calls("close") = {}
        /\ ~IsOpen(fds0, log[1].res.val)
        /\ fds[log[1].res.val] = "conn"

C9_Witness ==
    /\ Returned({"accept"})
    /\ Len(log) = 2
    /\ log[1].res.ok
    /\ ~log[2].res.ok
    /\ ret = -1
    /\ IsOpen(fds, log[1].res.val)

\* The descriptor call each path-based entry point makes between open and close.
OpOf(name) ==
    CASE name = "chmod" -> "fchmod"
      [] name = "chown" -> "fchown"
      [] name = "rename" -> "frename"
      [] name \in {"stat", "lstat"} -> "fstat"
      [] OTHER -> "none"

\* C10: chmod, chown, stat, lstat, rename, mkdir and mkfifo return -1 with the
\* open's errno and issue nothing more when the native open fails; when it
\* succeeds they close the opened descriptor exactly once, last, whatever the
\* descriptor call between gave, and the return value and errno are those of
\* that call (0 and errno untouched for mkdir and mkfifo), never the close's.
\* The descriptor table after the call is the one before it.
C10_OpenOpClose ==
    Returned(ClosersByPath) =>
        /\ Len(log) >= 1
        /\ log[1].sys = "open"
        /\ log[1].arg = call.path
        /\ fds = fds0
        /\ (~log[1].res.ok => Len(log) = 1 /\ ret = -1 /\ errno = log[1].res.val)
        /\ (log[1].res.ok =>
                LET fd == log[1].res.val
                    last == Len(log)
                IN  /\ Calls("close") = {last}
                    /\ log[last].a1 = fd
                    /\ Calls("open") = {1}
                    /\ IF call.name \in {"mkdir", "mkfifo"}
                       THEN last = 2 /\ ret = 0 /\ errno = errno0
                       ELSE /\ last = 3
                            /\ log[2].sys = OpOf(call.name)
                            /\ log[2].a1 = fd
                            /\ ret = (IF log[2].res.ok THEN 0 ELSE -1)
                            /\ errno = (IF log[2].res.ok THEN errno0 ELSE log[2].res.val))

\* rename succeeds although its close fails.
C10_Witness ==
    /\ Returned({"rename"})
    /\ Len(log) = 3
    /\ log[2].res.ok
    /\ ~log[3].res.ok
    /\ ret = 0
    /\ errno = errno0
    /\ fds = fds0

\* The opens of execve that gave a descriptor no later close of the call names.
EnvLeft ==
    {i \in Calls("open") :
        log[i].res.ok /\ ~\E j \in Calls("close") : j > i /\ log[j].a1 = log[i].res.val}

\* C11: every "env:NAME" descriptor execve opens is closed before execve
\* returns, on every path, the one where the native write of the value fails
\* included, so that the descriptor table after the call is the one before it;
\* and when an environment open, write or close fails, execve returns -1
\* without issuing the native execve.
C11_EnvClosed ==
    pc \in {"returned", "exited"} /\ call.name = "execve" =>
        /\ EnvLeft = {}
        /\ fds = fds0
        /\ (\E i \in Failures : log[i].sys \in {"open", "write", "close"}) =>
                pc = "returned" /\ ret = -1 /\ Calls("execve") = {}

====
